---- MODULE Spec2Model ----
(***************************************************************************)
(* Model of the marketing-defect-scripts pipeline:                         *)
(*   stage 1  catalog_scrape (src/unnamed/part_001): fetchAllPages,        *)
(*            processResults;                                              *)
(*   stage 2  src/osv_scrape.js: compareSemver, isVulnerableAtOrBelow,     *)
(*            httpsPost, osvRequest, extractFixes, worker, main.           *)
(*                                                                         *)
(* A JavaScript string is modelled as the sequence of its characters, so   *)
(* that split(".") and Number() are computed, not assumed.  A JavaScript   *)
(* object is a function from its field names; an absent field (undefined)  *)
(* is a name outside the DOMAIN.                                           *)
(***************************************************************************)
EXTENDS Integers, Sequences, FiniteSets, TLC

VARIABLES
  \* ---- compareSemver harness
  cmpA, cmpB, cmpResult,
  \* ---- isVulnerableAtOrBelow harness
  mVuln, mTarget, mResult,
  \* ---- stage 1 (catalog scrape)
  catPc, page, totalPages, allComponentsMap, observed, fetched, sleeps1, outFile1,
  \* ---- stage 2 (osv scrape)
  mainPc, packages, queue, lanes, allVulns, perPackageCounts, items, outFile, history

cmpVars == <<cmpA, cmpB, cmpResult>>
matchVars == <<mVuln, mTarget, mResult>>
catVars == <<catPc, page, totalPages, allComponentsMap, observed, fetched, sleeps1, outFile1>>
osvVars == <<mainPc, packages, queue, lanes, allVulns, perPackageCounts, items, outFile, history>>
vars == <<cmpVars, matchVars, catVars, osvVars>>

-----------------------------------------------------------------------------
(* Bounds of the model *)

\* longest generated version string (characters) in the compareSemver harness
MaxLen == 3
\* most events in one generated range of the isVulnerableAtOrBelow harness
MaxEvents == 2
\* largest totalPages the catalog reports
MaxPages == 2
\* most work items in componentsWithForkPoints.json
MaxItems == 3
\* most work items of a run whose final answers are kept
MaxAudited == 2

-----------------------------------------------------------------------------
(* JavaScript values *)

Has(o, f) == f \in DOMAIN o

Digits == {"0", "1", "2", "3", "4", "5", "6", "7", "8", "9"}

DigitVal(c) ==
  CASE c = "0" -> 0 [] c = "1" -> 1 [] c = "2" -> 2 [] c = "3" -> 3 [] c = "4" -> 4
    [] c = "5" -> 5 [] c = "6" -> 6 [] c = "7" -> 7 [] c = "8" -> 8 [] c = "9" -> 9

\* The value Number() gives for a string that is no numeric literal.
NaN == -1

RECURSIVE Decimal(_)
Decimal(s) ==
  IF s = <<>> THEN 0
  ELSE 10 * Decimal(SubSeq(s, 1, Len(s) - 1)) + DigitVal(s[Len(s)])

\* Number(s) for a string of digits and letters: "" is 0, a run of digits is its
\* decimal value, anything else is NaN.
Number(s) ==
  IF s = <<>> THEN 0
  ELSE IF \A i \in 1..Len(s) : s[i] \in Digits THEN Decimal(s)
  ELSE NaN

\* s.split("."): the pieces between the dots; "" gives [""].
RECURSIVE SplitDot(_)
SplitDot(s) ==
  IF \A i \in 1..Len(s) : s[i] # "."
  THEN <<s>>
  ELSE LET k == CHOOSE i \in 1..Len(s) : s[i] = "." /\ \A j \in 1..(i - 1) : s[j] # "."
       IN  <<SubSeq(s, 1, k - 1)>> \o SplitDot(SubSeq(s, k + 1, Len(s)))

\* x || 0 with a slip: only undefined falls back to 0, NaN is kept
OrZeroKeepsNaN(p, i) == IF i > Len(p) THEN 0 ELSE p[i]

\* x || 0 for a number or undefined x: 0, NaN and undefined are falsy.
OrZero(p, i) == IF i > Len(p) \/ p[i] = NaN THEN 0 ELSE p[i]

MapNumber(segs) == [i \in 1..Len(segs) |-> Number(segs[i])]

Max(x, y) == IF x >= y THEN x ELSE y

-----------------------------------------------------------------------------
(* compareSemver, src/osv_scrape.js:23-33 *)

RECURSIVE compareFrom(_, _, _)
compareFrom(pa, pb, i) ==
  IF i > Max(Len(pa), Len(pb)) THEN 0
  ELSE LET na == OrZero(pa, i)
           nb == OrZero(pb, i)
       IN  IF na > nb THEN 1
           ELSE IF na < nb THEN -1
           ELSE compareFrom(pa, pb, i + 1)

\* a plausible slip: the second test repeats the first result
compareSemverSameSign(a, b) ==
  LET pa == MapNumber(SplitDot(a))
      pb == MapNumber(SplitDot(b))
      RECURSIVE go(_)
      go(i) == IF i > Max(Len(pa), Len(pb)) THEN 0
               ELSE IF OrZero(pa, i) # OrZero(pb, i) THEN 1
               ELSE go(i + 1)
  IN  go(1)

compareSemver(a, b) ==
  compareFrom(MapNumber(SplitDot(a)), MapNumber(SplitDot(b)), 1)

\* ---- harness: compareSemver applied to a pair of version strings

NumericChars == {"0", "1", "."}

\* version strings as written in the spec and the README, by characters
s0 == <<"0">>
s000 == <<"0", ".", "0", ".", "0">>
s090 == <<"0", ".", "9", ".", "0">>
s100 == <<"1", ".", "0", ".", "0">>
s12 == <<"1", ".", "2">>
s120 == <<"1", ".", "2", ".", "0">>
s150 == <<"1", ".", "5", ".", "0">>
s199 == <<"1", ".", "9", ".", "9">>
s200 == <<"2", ".", "0", ".", "0">>
s210 == <<"2", ".", "1", ".", "0">>

\* strings with a segment that is no number
NonNumeric == {<<"a">>, <<"1", ".", "a">>, <<"a", ".", "1">>, <<"1", "a">>}

VersionInputs ==
  UNION {[1..n -> NumericChars] : n \in 0..MaxLen}
    \cup NonNumeric \cup {s12, s120, s199, s200}

CmpInit ==
  /\ cmpA \in VersionInputs
  /\ cmpB \in VersionInputs
  /\ cmpResult = <<>>
  \* the rest of the program is not running
  /\ mVuln = <<>> /\ mTarget = <<>> /\ mResult = <<>>
  /\ catPc = "off" /\ page = 0 /\ totalPages = 0 /\ allComponentsMap = <<>>
  /\ observed = <<>> /\ fetched = <<>> /\ sleeps1 = <<>> /\ outFile1 = <<>>
  /\ mainPc = "off" /\ packages = <<>> /\ queue = <<>> /\ lanes = <<>>
  /\ allVulns = <<>> /\ perPackageCounts = <<>> /\ items = <<>> /\ outFile = <<>>
  /\ history = <<>>

Compare ==
  /\ cmpResult = <<>>
  /\ cmpResult' = <<compareSemver(cmpA, cmpB)>>
  /\ UNCHANGED <<cmpA, cmpB>>
  /\ UNCHANGED <<matchVars, catVars, osvVars>>

-----------------------------------------------------------------------------
(* isVulnerableAtOrBelow, src/osv_scrape.js:35-64 *)

\* null (and any other falsy string value) of a local variable
Null == <<>>

\* lines 43-46: the loop over r.events keeps the last value of the field
RECURSIVE lastEvent(_, _, _)
lastEvent(events, f, acc) ==
  IF events = <<>> THEN acc
  ELSE lastEvent(Tail(events), f, IF Has(Head(events), f) THEN Head(events)[f] ELSE acc)

\* x || [] for an array field
OrEmpty(o, f) == IF Has(o, f) THEN o[f] ELSE <<>>

\* a plausible slip: the upper bound made exclusive
rangeMatchesExclusive(r, targetVersion) ==
  LET introduced0 == lastEvent(OrEmpty(r, "events"), "introduced", Null)
      fixed == lastEvent(OrEmpty(r, "events"), "fixed", Null)
      introduced == IF introduced0 = Null \/ introduced0 = s0 THEN s000 ELSE introduced0
  IN  IF compareSemver(targetVersion, introduced) < 0 THEN FALSE
      ELSE IF fixed # Null /\ compareSemver(targetVersion, fixed) >= 0 THEN FALSE
      ELSE TRUE

\* a plausible slip: the lower bound made exclusive
rangeMatchesAboveIntroduced(r, targetVersion) ==
  LET introduced0 == lastEvent(OrEmpty(r, "events"), "introduced", Null)
      fixed == lastEvent(OrEmpty(r, "events"), "fixed", Null)
      introduced == IF introduced0 = Null \/ introduced0 = s0 THEN s000 ELSE introduced0
  IN  IF compareSemver(targetVersion, introduced) <= 0 THEN FALSE
      ELSE IF fixed # Null /\ compareSemver(targetVersion, fixed) > 0 THEN FALSE
      ELSE TRUE

\* a plausible slip: a range without any bound matches nothing
rangeMatchesFailsClosed(r, targetVersion) ==
  LET introduced0 == lastEvent(OrEmpty(r, "events"), "introduced", Null)
      fixed == lastEvent(OrEmpty(r, "events"), "fixed", Null)
      introduced == IF introduced0 = Null \/ introduced0 = s0 THEN s000 ELSE introduced0
  IN  IF introduced0 = Null /\ fixed = Null THEN FALSE
      ELSE IF compareSemver(targetVersion, introduced) < 0 THEN FALSE
      ELSE IF fixed # Null /\ compareSemver(targetVersion, fixed) > 0 THEN FALSE
      ELSE TRUE

\* lines 39-62: the callback of ranges.some
rangeMatches(r, targetVersion) ==
  LET introduced0 == lastEvent(OrEmpty(r, "events"), "introduced", Null)
      fixed == lastEvent(OrEmpty(r, "events"), "fixed", Null)
      introduced == IF introduced0 = Null \/ introduced0 = s0 THEN s000 ELSE introduced0
  IN  IF compareSemver(targetVersion, introduced) < 0 THEN FALSE
      ELSE IF fixed # Null /\ compareSemver(targetVersion, fixed) > 0 THEN FALSE
      ELSE TRUE

isVulnerableAtOrBelow(vuln, targetVersion) ==
  IF ~Has(vuln, "affected") THEN FALSE
  ELSE \E i \in 1..Len(vuln.affected) :
         LET ranges == OrEmpty(vuln.affected[i], "ranges")
         IN  \E j \in 1..Len(ranges) : rangeMatches(ranges[j], targetVersion)

\* ---- harness: isVulnerableAtOrBelow applied to a vulnerability and a target

EventVersions == {s0, s100, s200}

\* an event object: any subset of the fields introduced, fixed
Events ==
  {<<>>}
    \cup {[introduced |-> v] : v \in EventVersions}
    \cup {[fixed |-> v] : v \in EventVersions}
    \cup {[introduced |-> v, fixed |-> w] : v \in EventVersions, w \in EventVersions}

EventLists(n) == UNION {[1..k -> Events] : k \in 0..n}

\* a range object, with or without its events field
Ranges(n) == {<<>>} \cup {[events |-> es] : es \in EventLists(n)}

MatchVulns ==
  {[id |-> "V1"], [id |-> "V1", affected |-> <<>>], [id |-> "V1", affected |-> << <<>> >>]}
    \cup {[id |-> "V1", affected |-> <<[ranges |-> <<r>>]>>] : r \in Ranges(MaxEvents)}
    \cup {[id |-> "V1", affected |-> <<[ranges |-> <<r1, r2>>]>>] :
            r1 \in Ranges(1), r2 \in Ranges(1)}
    \cup {[id |-> "V1", affected |-> <<[ranges |-> <<r1>>], [ranges |-> <<r2>>]>>] :
            r1 \in Ranges(1), r2 \in Ranges(1)}

MatchTargets == {s090, s100, s150, s200, s210}

MatchInit ==
  /\ mVuln \in MatchVulns
  /\ mTarget \in MatchTargets
  /\ mResult = <<>>
  \* the rest of the program is not running
  /\ cmpA = <<>> /\ cmpB = <<>> /\ cmpResult = <<>>
  /\ catPc = "off" /\ page = 0 /\ totalPages = 0 /\ allComponentsMap = <<>>
  /\ observed = <<>> /\ fetched = <<>> /\ sleeps1 = <<>> /\ outFile1 = <<>>
  /\ mainPc = "off" /\ packages = <<>> /\ queue = <<>> /\ lanes = <<>>
  /\ allVulns = <<>> /\ perPackageCounts = <<>> /\ items = <<>> /\ outFile = <<>>
  /\ history = <<>>

Match ==
  /\ mResult = <<>>
  /\ mResult' = <<isVulnerableAtOrBelow(mVuln, mTarget)>>
  /\ UNCHANGED <<mVuln, mTarget>>
  /\ UNCHANGED <<cmpVars, catVars, osvVars>>

-----------------------------------------------------------------------------
(* JavaScript Map: its entries in insertion order *)

MapHas(m, k) == \E i \in 1..Len(m) : m[i].key = k

MapGet(m, k) == m[CHOOSE i \in 1..Len(m) : m[i].key = k].value

\* set keeps the position of an existing key and appends a new one
MapSet(m, k, v) ==
  IF MapHas(m, k)
  THEN [i \in 1..Len(m) |-> IF m[i].key = k THEN [key |-> k, value |-> v] ELSE m[i]]
  ELSE Append(m, [key |-> k, value |-> v])

MapValues(m) == [i \in 1..Len(m) |-> m[i].value]

MapKeys(m) == {m[i].key : i \in 1..Len(m)}

\* the value of a field that an object does not have
Undefined == "undefined"

Field(o, f) == IF Has(o, f) THEN o[f] ELSE Undefined

-----------------------------------------------------------------------------
(* Stage 1: catalog scrape, src/unnamed/part_001 *)

\* lines 53-68: versionForkPoints.forEach; the result is the map, or threw = TRUE
\* when the callback raises.  Line 54 asks the map for item.componenty, a field no
\* catalog entry has; compareSemver (line 61) is not defined in this file, so
\* reaching line 61 raises a ReferenceError.
RECURSIVE forEachForkPoint(_, _, _)
forEachForkPoint(item, forkPoints, m) ==
  IF forkPoints = <<>> THEN [map |-> m, threw |-> FALSE]
  ELSE IF ~MapHas(m, Field(item, "componenty"))
       THEN forEachForkPoint(item, Tail(forkPoints),
              MapSet(m, item.component,
                     [component |-> item.component, forkPoint |-> Head(forkPoints)]))
       ELSE [map |-> m, threw |-> TRUE]

\* line 52: if (item.component)
Truthy(o, f) == Has(o, f) /\ o[f] # ""

\* lines 47-70: for (const item of results)
RECURSIVE processResults(_, _)
processResults(results, m) ==
  IF results = <<>> THEN [map |-> m, threw |-> FALSE]
  ELSE LET item == Head(results)
       IN  IF ~Has(item, "versions") THEN [map |-> m, threw |-> TRUE]
           ELSE IF \E i \in 1..Len(item.versions) : ~Has(item.versions[i], "oss")
           THEN [map |-> m, threw |-> TRUE]
           ELSE LET versionForkPoints ==
                      [i \in 1..Len(item.versions) |-> Field(item.versions[i].oss, "forkPoint")]
                    r == IF Truthy(item, "component")
                         THEN forEachForkPoint(item, versionForkPoints, m)
                         ELSE [map |-> m, threw |-> FALSE]
                IN  IF r.threw THEN r ELSE processResults(Tail(results), r.map)

\* ---- the catalog service: what a page may hold

V(fp) == [oss |-> [forkPoint |-> fp]]

CatalogItems ==
  {[component |-> "A", versions |-> <<V(s200), V(s12)>>],
   [component |-> "A", versions |-> <<V(s120)>>],
   [component |-> "A", versions |-> <<V(s12)>>],
   [component |-> "B", versions |-> <<V(s12), V(s200)>>]}

CatalogResults ==
  {<<>>} \cup {<<i>> : i \in CatalogItems} \cup {<<i, j>> : i \in CatalogItems, j \in CatalogItems}

\* a page body: results, and totalPages when the service reports it
CatalogPages ==
  {[results |-> rs] : rs \in CatalogResults}
    \cup {[results |-> rs, totalPages |-> n] : rs \in CatalogResults, n \in 0..MaxPages}

\* the (component, forkPoint) pairs of a page, in order of appearance
RECURSIVE PairsOf(_)
PairsOf(results) ==
  IF results = <<>> THEN <<>>
  ELSE LET item == Head(results)
           versions == SelectSeq(OrEmpty(item, "versions"), LAMBDA v : Has(v, "oss"))
       IN  [i \in 1..Len(versions) |->
              [component |-> item.component, forkPoint |-> versions[i].oss.forkPoint]]
           \o PairsOf(Tail(results))

\* catalog entries that lack an expected field: no versions list, a version
\* record without oss data
MalformedItems ==
  {[component |-> "C"], [component |-> "C", versions |-> <<V(s100), <<>> >>]}

WellFormedItems ==
  {[component |-> "A", versions |-> <<V(s120)>>],
   [component |-> "A", versions |-> <<V(s200)>>],
   [component |-> "B", versions |-> <<V(s200)>>]}

\* results with one malformed entry, alone, before or after a well-formed one
MalformedResults ==
  {<<m>> : m \in MalformedItems}
    \cup {<<m, i>> : m \in MalformedItems, i \in WellFormedItems}
    \cup {<<i, m>> : m \in MalformedItems, i \in WellFormedItems}

MixedPages ==
  {[results |-> rs, totalPages |-> n] :
     rs \in MalformedResults \cup {<<i>> : i \in WellFormedItems}
              \cup {<<i, j>> : i \in WellFormedItems, j \in WellFormedItems},
     n \in 1..MaxPages}

\* ---- fetchAllPages and the script body, lines 74-113

CatInit ==
  /\ catPc = "fetch"
  /\ page = 1
  /\ totalPages = 0
  /\ allComponentsMap = <<>>
  /\ observed = <<>>
  /\ fetched = <<>>
  /\ sleeps1 = <<>>
  /\ outFile1 = <<>>
  \* stage 2 and the harnesses are not running
  /\ cmpA = <<>> /\ cmpB = <<>> /\ cmpResult = <<>>
  /\ mVuln = <<>> /\ mTarget = <<>> /\ mResult = <<>>
  /\ mainPc = "off" /\ packages = <<>> /\ queue = <<>> /\ lanes = <<>>
  /\ allVulns = <<>> /\ perPackageCounts = <<>> /\ items = <<>> /\ outFile = <<>>
  /\ history = <<>>

\* what a fetch leaves in the log: the page number asked for and the totalPages of
\* the body, when a body came back and reports one
Reported(data) == IF Has(data, "totalPages") THEN <<data.totalPages>> ELSE <<>>

Fetched(n, data) == [page |-> n, reported |-> Reported(data)]

\* line 85 with a slip: the loop runs one page too far
AfterPageOneMore(next, total) == IF next <= total + 1 THEN "sleep" ELSE "return"

\* after a page is processed: the loop test of line 85 for the next page number
AfterPage(next, total) == IF next <= total THEN "sleep" ELSE "return"

\* lines 78-82: page 1 arrives; totalPages is read from it (|| 1)
FetchFirstFrom(Pages) ==
  /\ catPc = "fetch" /\ page = 1
  /\ \E data \in Pages :
       LET total == IF Has(data, "totalPages") /\ data.totalPages # 0
                    THEN data.totalPages ELSE 1
           r == processResults(data.results, allComponentsMap)
       IN  /\ totalPages' = total
           /\ allComponentsMap' = r.map
           /\ observed' = observed \o PairsOf(data.results)
           /\ fetched' = Append(fetched, Fetched(1, data))
           /\ page' = 2
           /\ catPc' = IF r.threw THEN "failed" ELSE AfterPage(2, total)
  /\ UNCHANGED <<sleeps1, outFile1>>
  /\ UNCHANGED <<cmpVars, matchVars, osvVars>>

FetchFirst == FetchFirstFrom(CatalogPages)

\* page 1 of a catalog that holds malformed entries
FetchFirstMixed == FetchFirstFrom(MixedPages)

\* line 86: await sleep(2000)
SleepBeforePage ==
  /\ catPc = "sleep"
  /\ sleeps1' = Append(sleeps1, 2000)
  /\ catPc' = "fetch"
  /\ UNCHANGED <<page, totalPages, allComponentsMap, observed, fetched, outFile1>>
  /\ UNCHANGED <<cmpVars, matchVars, osvVars>>

\* lines 87-88: a later page arrives; its own totalPages is not read
FetchNextFrom(Pages) ==
  /\ catPc = "fetch" /\ page >= 2
  /\ \E data \in Pages :
       LET r == processResults(data.results, allComponentsMap)
       IN  /\ allComponentsMap' = r.map
           /\ observed' = observed \o PairsOf(data.results)
           /\ fetched' = Append(fetched, Fetched(page, data))
           /\ page' = page + 1
           /\ catPc' = IF r.threw THEN "failed" ELSE AfterPage(page + 1, totalPages)
  /\ UNCHANGED <<totalPages, sleeps1, outFile1>>
  /\ UNCHANGED <<cmpVars, matchVars, osvVars>>

FetchNext == FetchNextFrom(CatalogPages)

\* a later page of a catalog that holds malformed entries
FetchNextMixed == FetchNextFrom(MixedPages)

\* lines 28-36 and 110-112: the request fails or the body is no JSON; the script
\* logs the error and writes nothing
FetchError ==
  /\ catPc = "fetch"
  /\ fetched' = Append(fetched, Fetched(page, <<>>))
  /\ catPc' = "failed"
  /\ UNCHANGED <<page, totalPages, allComponentsMap, observed, sleeps1, outFile1>>
  /\ UNCHANGED <<cmpVars, matchVars, osvVars>>

\* lines 91 and 104-107: the values of the map are written to the file
WriteComponents ==
  /\ catPc = "return"
  /\ outFile1' = <<MapValues(allComponentsMap)>>
  /\ catPc' = "done"
  /\ UNCHANGED <<page, totalPages, allComponentsMap, observed, fetched, sleeps1>>
  /\ UNCHANGED <<cmpVars, matchVars, osvVars>>

CatNext == FetchFirst \/ SleepBeforePage \/ FetchNext \/ FetchError \/ WriteComponents

\* stage 1 against a catalog with malformed entries, every request answered
MixedNext == FetchFirstMixed \/ SleepBeforePage \/ FetchNextMixed \/ WriteComponents

-----------------------------------------------------------------------------
(* Stage 2: osv scrape, src/osv_scrape.js *)

CONCURRENCY == 2
RETRY_LIMIT == 5
INITIAL_DELAY == 1000

\* ---- the vulnerability database: what a response may be

\* vulnerability objects of a response; W1 and W2 carry the same identifier
W1 ==
  [id |-> "V1", summary |-> "s1", details |-> "d1",
   affected |-> <<[ranges |-> <<[events |-> <<[introduced |-> s100], [fixed |-> s200]>>]>>]>>,
   references |-> <<[url |-> "u1"]>>]
W2 ==
  [id |-> "V1", summary |-> "s2",
   affected |-> <<[ranges |-> <<[events |-> <<[introduced |-> s0], [fixed |-> s210]>>]>>]>>]
W3 ==
  [id |-> "V2",
   affected |-> <<[ranges |-> <<[events |-> <<[introduced |-> s200]>>]>>]>>]

OsvVulns == {W1, W2, W3}

\* a parsed response body: an object with or without the vulns field
OsvBodies ==
  {<<>>, [vulns |-> <<>>], [vulns |-> <<W1, W2>>], [vulns |-> <<W3, W1>>]}
    \cup {[vulns |-> <<v>>] : v \in OsvVulns}

Statuses == {200, 301, 404, 429, 500, 503}

\* what comes back for one request: a network error, or a status with a body that
\* JSON.parse accepts (json = TRUE, data = the parsed object) or rejects
Responses ==
  {[error |-> TRUE]}
    \cup {[status |-> st, json |-> FALSE] : st \in Statuses}
    \cup {[status |-> 200, json |-> TRUE, data |-> d] : d \in OsvBodies}

\* the work items the file may list
PackageChoices ==
  {[component |-> "A", forkPoint |-> s150], [component |-> "B", forkPoint |-> s200]}

PackageFiles == UNION {[1..n -> PackageChoices] : n \in 0..MaxItems}

\* ---- httpsPost, lines 66-105: the promise settles with the parsed body, or
\* rejects with an error that is retryable or not

\* line 100 with a slip: a network error is marked retryable as well
httpsPostRetriesErrors(resp) ==
  IF Has(resp, "error") THEN [ok |-> FALSE, retryable |-> TRUE]
  ELSE IF resp.status = 429 \/ resp.status >= 500 THEN [ok |-> FALSE, retryable |-> TRUE]
  ELSE IF resp.status < 200 \/ resp.status >= 300 THEN [ok |-> FALSE, retryable |-> FALSE]
  ELSE IF ~resp.json THEN [ok |-> FALSE, retryable |-> FALSE]
  ELSE [ok |-> TRUE, data |-> resp.data]

httpsPost(resp) ==
  IF Has(resp, "error") THEN [ok |-> FALSE, retryable |-> FALSE]
  ELSE IF resp.status = 429 \/ resp.status >= 500 THEN [ok |-> FALSE, retryable |-> TRUE]
  ELSE IF resp.status < 200 \/ resp.status >= 300 THEN [ok |-> FALSE, retryable |-> FALSE]
  ELSE IF ~resp.json THEN [ok |-> FALSE, retryable |-> FALSE]
  ELSE [ok |-> TRUE, data |-> resp.data]

\* ---- extractFixes, lines 153-163: the truthy fixed values, each once, in order

RECURSIVE Dedup(_)
Dedup(xs) ==
  IF xs = <<>> THEN <<>>
  ELSE LET rest == Dedup(SubSeq(xs, 1, Len(xs) - 1))
           x == xs[Len(xs)]
       IN  IF \E i \in 1..Len(rest) : rest[i] = x THEN rest ELSE Append(rest, x)

RECURSIVE Flatten(_)
Flatten(xss) == IF xss = <<>> THEN <<>> ELSE Head(xss) \o Flatten(Tail(xss))

RECURSIVE fixedOfEvents(_)
fixedOfEvents(events) ==
  IF events = <<>> THEN <<>>
  ELSE (IF Has(Head(events), "fixed") /\ Head(events).fixed # Null
        THEN <<Head(events).fixed>> ELSE <<>>) \o fixedOfEvents(Tail(events))

fixedOfEntry(a) ==
  LET ranges == OrEmpty(a, "ranges")
  IN  Flatten([j \in 1..Len(ranges) |-> fixedOfEvents(OrEmpty(ranges[j], "events"))])

extractFixes(v) ==
  LET affected == OrEmpty(v, "affected")
  IN  Dedup(Flatten([i \in 1..Len(affected) |-> fixedOfEntry(affected[i])]))

\* ---- worker, lines 166-209

\* x || "" for a string field
OrBlank(o, f) == IF Has(o, f) THEN o[f] ELSE ""

Includes(xs, x) == \E i \in 1..Len(xs) : xs[i] = x

\* lines 201-203 with a slip: the component is pushed without the includes test
recordAlwaysPushes(m, v, component) ==
  LET fixes == extractFixes(v)
  IN  IF ~MapHas(m, v.id)
      THEN MapSet(m, v.id,
             [id |-> v.id,
              summary |-> OrBlank(v, "summary"),
              details |-> OrBlank(v, "details"),
              severity |-> OrEmpty(v, "severity"),
              affected |-> OrEmpty(v, "affected"),
              fixedVersions |-> fixes,
              references |-> [i \in 1..Len(OrEmpty(v, "references")) |-> v.references[i].url],
              affectedComponents |-> <<component>>])
      ELSE LET ex == MapGet(m, v.id)
           IN  MapSet(m, v.id,
                 [ex EXCEPT
                    !.fixedVersions = Dedup(ex.fixedVersions \o fixes),
                    !.affectedComponents = Append(ex.affectedComponents, component)])

\* lines 199-203 with a slip: the merge also takes the summary of the new payload
recordTakesSummary(m, v, component) ==
  LET fixes == extractFixes(v)
  IN  IF ~MapHas(m, v.id)
      THEN MapSet(m, v.id,
             [id |-> v.id,
              summary |-> OrBlank(v, "summary"),
              details |-> OrBlank(v, "details"),
              severity |-> OrEmpty(v, "severity"),
              affected |-> OrEmpty(v, "affected"),
              fixedVersions |-> fixes,
              references |-> [i \in 1..Len(OrEmpty(v, "references")) |-> v.references[i].url],
              affectedComponents |-> <<component>>])
      ELSE LET ex == MapGet(m, v.id)
           IN  MapSet(m, v.id,
                 [ex EXCEPT
                    !.summary = OrBlank(v, "summary"),
                    !.fixedVersions = Dedup(ex.fixedVersions \o fixes),
                    !.affectedComponents =
                       IF Includes(ex.affectedComponents, component)
                       THEN ex.affectedComponents
                       ELSE Append(ex.affectedComponents, component)])

\* lines 187-204 with a slip: set without the has test, the earlier record is lost
recordOverwrites(m, v, component) ==
  MapSet(m, v.id,
    [id |-> v.id,
     summary |-> OrBlank(v, "summary"),
     details |-> OrBlank(v, "details"),
     severity |-> OrEmpty(v, "severity"),
     affected |-> OrEmpty(v, "affected"),
     fixedVersions |-> extractFixes(v),
     references |-> [i \in 1..Len(OrEmpty(v, "references")) |-> v.references[i].url],
     affectedComponents |-> <<component>>])

\* lines 187-204: one vulnerability recorded for component
record(m, v, component) ==
  LET fixes == extractFixes(v)
  IN  IF ~MapHas(m, v.id)
      THEN MapSet(m, v.id,
             [id |-> v.id,
              summary |-> OrBlank(v, "summary"),
              details |-> OrBlank(v, "details"),
              severity |-> OrEmpty(v, "severity"),
              affected |-> OrEmpty(v, "affected"),
              fixedVersions |-> fixes,
              references |-> [i \in 1..Len(OrEmpty(v, "references")) |-> v.references[i].url],
              affectedComponents |-> <<component>>])
      ELSE LET ex == MapGet(m, v.id)
           IN  MapSet(m, v.id,
                 [ex EXCEPT
                    !.fixedVersions = Dedup(ex.fixedVersions \o fixes),
                    !.affectedComponents =
                       IF Includes(ex.affectedComponents, component)
                       THEN ex.affectedComponents
                       ELSE Append(ex.affectedComponents, component)])

\* lines 178-180: vulns.filter
\* lines 178-180 with a slip: the filter lets every vulnerability through
relevantAll(vulns, forkPoint) == vulns

RECURSIVE relevant(_, _)
relevant(vulns, forkPoint) ==
  IF vulns = <<>> THEN <<>>
  ELSE (IF isVulnerableAtOrBelow(Head(vulns), forkPoint) THEN <<Head(vulns)>> ELSE <<>>)
         \o relevant(Tail(vulns), forkPoint)

\* lines 183-205: the loop over relevantVulns
RECURSIVE recordAll(_, _, _)
recordAll(m, vs, component) ==
  IF vs = <<>> THEN m ELSE recordAll(record(m, Head(vs), component), Tail(vs), component)

\* line 185: the vulnerabilities that have at least one fix
remediated(vs) == Cardinality({i \in 1..Len(vs) : extractFixes(vs[i]) # <<>>})

\* ---- the lanes: one record per call of worker(queue)
\*   pc       "new" not yet called, "fetch" a request is in flight, "sleep" in the
\*            backoff sleep, "got" osvRequest has resolved, "done" the worker returned
\*   pkg      the work item held (its position in packages), 0 when none
\*   attempt  the attempt parameter of the running osvRequest call
\*   delay    the length of the running sleep in ms, 0 when not asleep
\*   vulns    what osvRequest resolved with
\*   outcome  whether the query ended "ok" (a parsed body) or "failed"

Lanes == 1..CONCURRENCY

NewLane ==
  [pc |-> "new", pkg |-> 0, attempt |-> 0, delay |-> 0, vulns |-> <<>>,
   outcome |-> "pending"]

\* line 168 with a slip: the head is read but not removed
queuePeek(q) == q

\* line 168: queue.shift() removes the head
queueShift(q) == Tail(q)

\* lines 167-170: the loop test, the dequeue and the first request of osvRequest;
\* st is the shared state [queue, lanes, items]; items counts, per work item, how
\* often it was dequeued and how often its loop body ran to its end
workerLoop(st, w) ==
  IF Len(st.queue) = 0
  THEN [st EXCEPT !.lanes[w] = [NewLane EXCEPT !.pc = "done"]]
  ELSE LET pkg == Head(st.queue)
       IN  [queue |-> queueShift(st.queue),
            lanes |-> [st.lanes EXCEPT ![w] =
                         [pc |-> "fetch", pkg |-> pkg, attempt |-> 1, delay |-> 0,
                          vulns |-> <<>>, outcome |-> "pending"]],
            items |-> [st.items EXCEPT ![pkg] =
                         [@ EXCEPT !.dequeues = @ + 1]]]

\* lines 172-175 with a slip: the worker returns instead of going round the loop
skipItemReturns(st, w) == [st EXCEPT !.lanes[w] = [NewLane EXCEPT !.pc = "done"]]

\* lines 172-175: no vulnerabilities came back; continue with the next item
skipItem(st, w) == workerLoop(st, w)

\* line 226: Array.from calls worker(queue) for each lane in turn; each call runs
\* to its first await
RECURSIVE startWorkers(_, _)
startWorkers(st, w) ==
  IF w > CONCURRENCY THEN st ELSE startWorkers(workerLoop(st, w), w + 1)

\* line 142 with a slip: one retry more
mayRetryOnceMore(retryable, attempt) == retryable /\ attempt <= RETRY_LIMIT + 1

\* line 142: the test that decides a retry
mayRetry(retryable, attempt) == retryable /\ attempt <= RETRY_LIMIT

\* line 143 with a slip: the delay does not grow
backoffConstant(attempt) == INITIAL_DELAY

\* line 143: the delay before the next attempt
backoff(attempt) == INITIAL_DELAY * 2 ^ (attempt - 1)

\* line 140: data.vulns || []
vulnsOf(data) == OrEmpty(data, "vulns")

\* lines 133-151: the response of the request in flight reaches osvRequest
osvRequest(lane, resp) ==
  LET r == httpsPost(resp)
  IN  IF r.ok
      THEN [lane EXCEPT !.pc = "got", !.attempt = 0, !.vulns = vulnsOf(r.data),
                        !.outcome = "ok"]
      ELSE IF mayRetry(r.retryable, lane.attempt)
      THEN [lane EXCEPT !.pc = "sleep", !.delay = backoff(lane.attempt)]
      ELSE [lane EXCEPT !.pc = "got", !.attempt = 0, !.vulns = <<>>, !.outcome = "failed"]

\* lines 145-146: the sleep ends and osvRequest(pkg, attempt + 1) sends a request
osvRetry(lane) ==
  [lane EXCEPT !.pc = "fetch", !.attempt = @ + 1, !.delay = 0]

\* ---- main, lines 212-240, and the events of the run

OsvInit ==
  /\ mainPc = "start"
  /\ packages = <<>>
  /\ queue = <<>>
  /\ lanes = [w \in Lanes |-> NewLane]
  /\ allVulns = <<>>
  /\ perPackageCounts = <<>>
  /\ items = <<>>
  /\ outFile = <<>>
  /\ history = <<>>
  \* stage 1 and the harnesses are not running
  /\ cmpA = <<>> /\ cmpB = <<>> /\ cmpResult = <<>>
  /\ mVuln = <<>> /\ mTarget = <<>> /\ mResult = <<>>
  /\ catPc = "off" /\ page = 0 /\ totalPages = 0 /\ allComponentsMap = <<>>
  /\ observed = <<>> /\ fetched = <<>> /\ sleeps1 = <<>> /\ outFile1 = <<>>

\* lines 216-227: the file is read and parsed, the queue is filled, the lanes are
\* started and main awaits them
MainRead ==
  /\ mainPc = "start"
  /\ \E file \in PackageFiles :
       LET st == startWorkers(
                   [queue |-> [i \in 1..Len(file) |-> i],
                    lanes |-> lanes,
                    items |-> [i \in 1..Len(file) |->
                                 [dequeues |-> 0, processed |-> 0]]], 1)
       IN  /\ packages' = file
           /\ queue' = st.queue
           /\ lanes' = st.lanes
           /\ items' = st.items
  /\ mainPc' = "await"
  /\ UNCHANGED <<allVulns, perPackageCounts, outFile, history>>
  /\ UNCHANGED <<cmpVars, matchVars, catVars>>

\* lines 219-222 with a slip: an empty result file is left behind before the exit
MainReadFailsWritesEmpty ==
  /\ mainPc = "start"
  /\ mainPc' = "exit1"
  /\ outFile' = << <<>> >>
  /\ UNCHANGED <<packages, queue, lanes, allVulns, perPackageCounts, items, history>>
  /\ UNCHANGED <<cmpVars, matchVars, catVars>>

\* lines 219-222: the file is missing or is no JSON: process.exit(1)
MainReadFails ==
  /\ mainPc = "start"
  /\ mainPc' = "exit1"
  /\ UNCHANGED <<packages, queue, lanes, allVulns, perPackageCounts, items, outFile, history>>
  /\ UNCHANGED <<cmpVars, matchVars, catVars>>

\* a response (or a network error) arrives for the request of lane w
Respond(w) ==
  /\ lanes[w].pc = "fetch"
  /\ \E resp \in Responses : lanes' = [lanes EXCEPT ![w] = osvRequest(lanes[w], resp)]
  /\ UNCHANGED <<mainPc, packages, queue, allVulns, perPackageCounts, items, outFile, history>>
  /\ UNCHANGED <<cmpVars, matchVars, catVars>>

\* the backoff timer of lane w fires
Wake(w) ==
  /\ lanes[w].pc = "sleep"
  /\ lanes' = [lanes EXCEPT ![w] = osvRetry(lanes[w])]
  /\ UNCHANGED <<mainPc, packages, queue, allVulns, perPackageCounts, items, outFile, history>>
  /\ UNCHANGED <<cmpVars, matchVars, catVars>>

\* lines 170-208: the worker resumes with the result of osvRequest, records it and
\* goes round the loop
Process(w) ==
  /\ lanes[w].pc = "got"
  /\ LET lane == lanes[w]
         pkg == packages[lane.pkg]
         vulns == lane.vulns
         relevantVulns == relevant(vulns, pkg.forkPoint)
         noted == [items EXCEPT ![lane.pkg] = [@ EXCEPT !.processed = @ + 1]]
         shared == [queue |-> queue, lanes |-> lanes, items |-> noted]
         st == IF Len(vulns) = 0 THEN skipItem(shared, w) ELSE workerLoop(shared, w)
     IN  /\ IF Len(vulns) = 0
            THEN UNCHANGED <<allVulns, perPackageCounts>>
            ELSE /\ allVulns' = recordAll(allVulns, relevantVulns, pkg.component)
                 /\ perPackageCounts' =
                      MapSet(perPackageCounts, pkg.component, remediated(relevantVulns))
         /\ queue' = st.queue
         /\ lanes' = st.lanes
         /\ items' = st.items
  /\ UNCHANGED <<mainPc, packages, outFile, history>>
  /\ UNCHANGED <<cmpVars, matchVars, catVars>>

\* line 227 with a slip: main goes on as soon as one worker has returned
MainWriteAfterFirst ==
  /\ mainPc = "await"
  /\ \E w \in Lanes : lanes[w].pc = "done"
  /\ outFile' = <<MapValues(allVulns)>>
  /\ mainPc' = "done"
  /\ UNCHANGED <<packages, queue, lanes, allVulns, perPackageCounts, items, history>>
  /\ UNCHANGED <<cmpVars, matchVars, catVars>>

\* lines 227-230: every worker has returned; the values of allVulns are written
MainWrite ==
  /\ mainPc = "await"
  /\ \A w \in Lanes : lanes[w].pc = "done"
  /\ outFile' = <<MapValues(allVulns)>>
  /\ mainPc' = "done"
  /\ UNCHANGED <<packages, queue, lanes, allVulns, perPackageCounts, items, history>>
  /\ UNCHANGED <<cmpVars, matchVars, catVars>>

\* ---- one query observed: the run on a file of one work item, with the requests
\* sent, the responses received and the sleeps made kept in history

RetryInit ==
  /\ mainPc = "start"
  /\ packages = <<>>
  /\ queue = <<>>
  /\ lanes = [w \in Lanes |-> NewLane]
  /\ allVulns = <<>>
  /\ perPackageCounts = <<>>
  /\ items = <<>>
  /\ outFile = <<>>
  /\ history = [requests |-> 0, responses |-> <<>>, sleeps |-> <<>>]
  \* stage 1 and the harnesses are not running
  /\ cmpA = <<>> /\ cmpB = <<>> /\ cmpResult = <<>>
  /\ mVuln = <<>> /\ mTarget = <<>> /\ mResult = <<>>
  /\ catPc = "off" /\ page = 0 /\ totalPages = 0 /\ allComponentsMap = <<>>
  /\ observed = <<>> /\ fetched = <<>> /\ sleeps1 = <<>> /\ outFile1 = <<>>

\* MainRead on a file of one item: lane 1 takes it, lane 2 finds the queue empty
ReadOne ==
  /\ mainPc = "start"
  /\ \E p \in PackageChoices :
       LET st == startWorkers(
                   [queue |-> <<1>>, lanes |-> lanes,
                    items |-> <<[dequeues |-> 0, processed |-> 0]>>], 1)
       IN  /\ packages' = <<p>>
           /\ queue' = st.queue
           /\ lanes' = st.lanes
           /\ items' = st.items
  /\ mainPc' = "await"
  /\ history' = [history EXCEPT !.requests = @ + 1]
  /\ UNCHANGED <<allVulns, perPackageCounts, outFile>>
  /\ UNCHANGED <<cmpVars, matchVars, catVars>>

RespondObserved ==
  /\ lanes[1].pc = "fetch"
  /\ \E resp \in Responses :
       LET lane == osvRequest(lanes[1], resp)
       IN  /\ lanes' = [lanes EXCEPT ![1] = lane]
           /\ history' = [history EXCEPT
                            !.responses = Append(@, resp),
                            !.sleeps = IF lane.pc = "sleep" THEN Append(@, lane.delay) ELSE @]
  /\ UNCHANGED <<mainPc, packages, queue, allVulns, perPackageCounts, items, outFile>>
  /\ UNCHANGED <<cmpVars, matchVars, catVars>>

WakeObserved ==
  /\ lanes[1].pc = "sleep"
  /\ lanes' = [lanes EXCEPT ![1] = osvRetry(lanes[1])]
  /\ history' = [history EXCEPT !.requests = @ + 1]
  /\ UNCHANGED <<mainPc, packages, queue, allVulns, perPackageCounts, items, outFile>>
  /\ UNCHANGED <<cmpVars, matchVars, catVars>>

\* ---- the run audited: history keeps, per work item, the answer that ended its
\* query (the last response osvRequest received for it)

AuditInit ==
  /\ mainPc = "start"
  /\ packages = <<>>
  /\ queue = <<>>
  /\ lanes = [w \in Lanes |-> NewLane]
  /\ allVulns = <<>>
  /\ perPackageCounts = <<>>
  /\ items = <<>>
  /\ outFile = <<>>
  /\ history = [answers |-> <<>>]
  \* stage 1 and the harnesses are not running
  /\ cmpA = <<>> /\ cmpB = <<>> /\ cmpResult = <<>>
  /\ mVuln = <<>> /\ mTarget = <<>> /\ mResult = <<>>
  /\ catPc = "off" /\ page = 0 /\ totalPages = 0 /\ allComponentsMap = <<>>
  /\ observed = <<>> /\ fetched = <<>> /\ sleeps1 = <<>> /\ outFile1 = <<>>

\* MainRead, no answer known yet
MainReadAudited ==
  /\ mainPc = "start"
  /\ \E file \in UNION {[1..n -> PackageChoices] : n \in 0..MaxAudited} :
       LET st == startWorkers(
                   [queue |-> [i \in 1..Len(file) |-> i],
                    lanes |-> lanes,
                    items |-> [i \in 1..Len(file) |->
                                 [dequeues |-> 0, processed |-> 0]]], 1)
       IN  /\ packages' = file
           /\ queue' = st.queue
           /\ lanes' = st.lanes
           /\ items' = st.items
           /\ history' = [answers |-> [i \in 1..Len(file) |-> <<>>]]
  /\ mainPc' = "await"
  /\ UNCHANGED <<allVulns, perPackageCounts, outFile>>
  /\ UNCHANGED <<cmpVars, matchVars, catVars>>

\* Respond, the answer kept when osvRequest returns
RespondAudited(w) ==
  /\ lanes[w].pc = "fetch"
  /\ \E resp \in Responses :
       LET lane == osvRequest(lanes[w], resp)
       IN  /\ lanes' = [lanes EXCEPT ![w] = lane]
           /\ history' = IF lane.pc = "got"
                         THEN [history EXCEPT !.answers[lanes[w].pkg] = <<resp>>]
                         ELSE history
  /\ UNCHANGED <<mainPc, packages, queue, allVulns, perPackageCounts, items, outFile>>
  /\ UNCHANGED <<cmpVars, matchVars, catVars>>

AuditNext ==
  \/ MainReadAudited
  \/ MainReadFails
  \/ \E w \in Lanes : RespondAudited(w)
  \/ \E w \in Lanes : Wake(w)
  \/ \E w \in Lanes : Process(w)
  \/ MainWrite

RetryNext ==
  \/ ReadOne
  \/ RespondObserved
  \/ WakeObserved
  \/ \E w \in Lanes : Process(w)
  \/ MainWrite

Next ==
  \/ MainRead
  \/ MainReadFails
  \/ \E w \in Lanes : Respond(w)
  \/ \E w \in Lanes : Wake(w)
  \/ \E w \in Lanes : Process(w)
  \/ MainWrite

-----------------------------------------------------------------------------
(* Specifications *)

\* stage 2: a run of osv_scrape.js from its start
Spec == OsvInit /\ [][Next]_vars

\* the step of lane w out of "got", told by the lane alone: the Process(w) steps
Continues(w) ==
  /\ lanes[w].pc = "got"
  /\ LET noted == [items EXCEPT ![lanes[w].pkg] = [@ EXCEPT !.processed = @ + 1]]
         shared == [queue |-> queue, lanes |-> lanes, items |-> noted]
     IN  lanes' = (IF Len(lanes[w].vulns) = 0 THEN skipItem(shared, w)
                   ELSE workerLoop(shared, w)).lanes

\* every request gets its response (or its network error), every timer fires and
\* every continuation that is ready runs
Responsive ==
  /\ WF_vars(MainReadAudited \/ MainReadFails)
  /\ \A w \in Lanes :
       WF_vars(RespondAudited(w)) /\ WF_vars(Wake(w)) /\ WF_lanes(Continues(w))
  /\ WF_vars(MainWrite)

\* stage 2 with every request answered
SpecLive == AuditInit /\ [][AuditNext]_vars /\ Responsive

\* stage 2: the run on one work item, its query observed
SpecRetry == RetryInit /\ [][RetryNext]_vars

\* stage 2: the run with the final answer of every query kept
SpecAudit == AuditInit /\ [][AuditNext]_vars

\* compareSemver on every pair of inputs
SpecSemver == CmpInit /\ [][Compare]_vars

\* isVulnerableAtOrBelow on every vulnerability and target
SpecMatch == MatchInit /\ [][Match]_vars

\* stage 1: the catalog scrape from its start
SpecCatalog == CatInit /\ [][CatNext]_vars

\* stage 1 against a catalog with malformed entries
SpecMalformed == CatInit /\ [][MixedNext]_vars

-----------------------------------------------------------------------------
(* Claims *)

\* C10: compareSemver is a total preorder on version strings: compare(a,a) = 0,
\* compare(a,b) = -compare(b,a), compare(a,b) <= 0 and compare(b,c) <= 0 imply
\* compare(a,c) <= 0, and every result is one of -1, 0, 1.
C10_TotalPreorder ==
  cmpResult # <<>> =>
    LET r == cmpResult[1]
    IN  /\ r \in {-1, 0, 1}
        /\ compareSemver(cmpA, cmpA) = 0
        /\ compareSemver(cmpB, cmpA) = 0 - r
        /\ \A c \in VersionInputs :
             (r <= 0 /\ compareSemver(cmpB, c) <= 0) => compareSemver(cmpA, c) <= 0

\* a strictly ordered pair with a non-numeric segment, and a third string above both
C10_Witness ==
  /\ cmpResult = <<-1>>
  /\ cmpA = <<"1", ".", "a">>
  /\ cmpB = <<"1", ".", "1">>
  /\ \E c \in VersionInputs : compareSemver(cmpB, c) < 0 /\ compareSemver(cmpA, c) < 0

\* the reference comparison, stated on the characters of the strings

\* the positions of the dots of s, and the number of segments they delimit
DotsOf(s) == {i \in 1..Len(s) : s[i] = "."}

SegmentCount(s) == Cardinality(DotsOf(s)) + 1

\* the k-th segment: the characters after the (k-1)-th dot and before the k-th
SegmentOf(s, k) ==
  LET before(i) == Cardinality({d \in DotsOf(s) : d < i})
  IN  SelectSeq([i \in 1..Len(s) |-> <<i, s[i]>>],
                LAMBDA c : c[2] # "." /\ before(c[1]) = k - 1)

\* the number a segment stands for: its decimal value, 0 when it is no number
RECURSIVE PlaceValue(_, _)
PlaceValue(seg, i) ==
  IF i > Len(seg) THEN 0
  ELSE DigitVal(seg[i][2]) * 10 ^ (Len(seg) - i) + PlaceValue(seg, i + 1)

SegmentValue(s, k) ==
  LET seg == SegmentOf(s, k)
  IN  IF k > SegmentCount(s) THEN 0
      ELSE IF \E i \in 1..Len(seg) : seg[i][2] \notin Digits THEN 0
      ELSE PlaceValue(seg, 1)

Sign(n) == IF n > 0 THEN 1 ELSE IF n < 0 THEN -1 ELSE 0

ReferenceCompare(a, b) ==
  LET width == Max(SegmentCount(a), SegmentCount(b))
      differing == {k \in 1..width : SegmentValue(a, k) # SegmentValue(b, k)}
  IN  IF differing = {} THEN 0
      ELSE LET k == CHOOSE d \in differing : \A e \in differing : d <= e
           IN  Sign(SegmentValue(a, k) - SegmentValue(b, k))

\* C11: compareSemver equals the reference comparison (segments between dots read
\* as numbers, a non-numeric segment and a missing one counting as 0, sign of the
\* first differing position); compare("1.2.0","1.2") = 0, compare("2.0.0","1.9.9")
\* = 1, and every call yields a result.
C11_EqualsReference ==
  cmpResult # <<>> =>
    /\ cmpResult[1] = ReferenceCompare(cmpA, cmpB)
    /\ (cmpA = s120 /\ cmpB = s12) => cmpResult[1] = 0
    /\ (cmpA = s200 /\ cmpB = s199) => cmpResult[1] = 1

\* "1.2.0" against "1.2": the shorter string is padded with 0
C11_Witness ==
  /\ cmpA = s120
  /\ cmpB = s12
  /\ cmpResult = <<0>>

\* ---- RangeMatcher

\* the positions of the events of range r that carry field f
EventsWith(r, f) ==
  {i \in 1..Len(OrEmpty(r, "events")) : Has(OrEmpty(r, "events")[i], f)}

MaxOf(S) == CHOOSE x \in S : \A y \in S : y <= x

\* the effective introduced bound: the last introduced event, 0.0.0 when there is
\* none or it is "0"
EffIntroduced(r) ==
  IF EventsWith(r, "introduced") = {} THEN s000
  ELSE LET v == r.events[MaxOf(EventsWith(r, "introduced"))].introduced
       IN  IF v = s0 THEN s000 ELSE v

\* the effective fixed bound: the last fixed event (when there is one)
EffFixed(r) == r.events[MaxOf(EventsWith(r, "fixed"))].fixed

InRange(r, target) ==
  /\ compareSemver(EffIntroduced(r), target) <= 0
  /\ EventsWith(r, "fixed") # {} => compareSemver(EffFixed(r), target) >= 0

\* C2: isVulnerableAtOrBelow(vuln, target) is true exactly when some affected
\* entry has some range whose effective introduced bound is <= target and whose
\* effective fixed bound, when one exists, is >= target (both bounds inclusive).
C2_RangeMatcherContract ==
  mResult # <<>> =>
    (mResult[1] <=>
       /\ Has(mVuln, "affected")
       /\ \E i \in 1..Len(mVuln.affected) :
            \E j \in 1..Len(OrEmpty(mVuln.affected[i], "ranges")) :
              InRange(mVuln.affected[i].ranges[j], mTarget))

\* a range whose events are overwritten (last wins) and whose fixed bound is the target
C2_Witness ==
  /\ mResult = <<TRUE>>
  /\ mTarget = s200
  /\ mVuln = [id |-> "V1", affected |-> <<[ranges |-> <<[events |->
       <<[introduced |-> s200, fixed |-> s100], [introduced |-> s100, fixed |-> s200]>>]>>]>>]

\* the vulnerability of the boundary test, its range written as one event or as two
C3Vulns ==
  {[id |-> "V1", affected |-> <<[ranges |-> <<[events |-> <<[introduced |-> s100, fixed |-> s200]>>]>>]>>],
   [id |-> "V1", affected |-> <<[ranges |-> <<[events |-> <<[introduced |-> s100], [fixed |-> s200]>>]>>]>>]}

\* C3 as stated: for the range introduced 1.0.0, fixed 2.0.0 the result is true at
\* 1.5.0 and 1.0.0 and false at 2.0.0 and 0.9.0.
C3_BoundaryAsStated ==
  (mResult # <<>> /\ mVuln \in C3Vulns /\ mTarget \in {s090, s100, s150, s200}) =>
    (mResult[1] <=> mTarget \in {s100, s150})

\* C3 amended: for the range introduced 1.0.0, fixed 2.0.0 the result is true at
\* 1.0.0, 1.5.0 and 2.0.0 (the fixed version itself is still reported) and false
\* at 0.9.0 and at 2.1.0.
C3_BoundaryInclusive ==
  (mResult # <<>> /\ mVuln \in C3Vulns) =>
    (mResult[1] <=> mTarget \in {s100, s150, s200})

\* the target equal to the fixed version has been matched
C3_Witness ==
  /\ mVuln \in C3Vulns
  /\ mTarget = s200
  /\ mResult = <<TRUE>>

\* ---- ForkPointResolver

\* the fork points observed for component c, in order of appearance
RECURSIVE ForkPointsOf(_, _)
ForkPointsOf(obs, c) ==
  IF obs = <<>> THEN <<>>
  ELSE (IF Head(obs).component = c THEN <<Head(obs).forkPoint>> ELSE <<>>)
         \o ForkPointsOf(Tail(obs), c)

\* the maximum of a non-empty sequence by compareSemver, the first among equals
FirstMax(fps) ==
  fps[CHOOSE i \in 1..Len(fps) :
        /\ \A j \in 1..Len(fps) : compareSemver(fps[j], fps[i]) <= 0
        /\ \A j \in 1..(i - 1) : compareSemver(fps[j], fps[i]) < 0]

ObservedComponents == {observed[i].component : i \in 1..Len(observed)}

\* C4: once the scan has written its output, the fork point retained for each
\* component is the maximum by compareSemver of all fork points observed for it
\* (the first seen among equals), and the output has exactly one record per
\* component.
C4_RetainsMaximum ==
  catPc = "done" =>
    LET out == outFile1[1]
    IN  /\ \A c \in ObservedComponents :
             /\ Cardinality({i \in 1..Len(out) : out[i].component = c}) = 1
             /\ \A i \in 1..Len(out) :
                  out[i].component = c => out[i].forkPoint = FirstMax(ForkPointsOf(observed, c))
        /\ \A i \in 1..Len(out) : out[i].component \in ObservedComponents

\* ---- WorkerPool

\* C1: each work item is dequeued by exactly one lane and processed exactly
\* once: never dequeued or processed twice, never held by two lanes, never both
\* in the queue and taken, and when the run has ended every item has been
\* dequeued once and processed once.
C1_ExactlyOnce ==
  /\ \A i \in 1..Len(items) :
       /\ items[i].dequeues <= 1
       /\ items[i].processed <= items[i].dequeues
       /\ items[i].dequeues = 0 <=> (\E k \in 1..Len(queue) : queue[k] = i)
       /\ (items[i].dequeues = 1 /\ items[i].processed = 0)
            <=> (\E w \in Lanes : lanes[w].pkg = i)
       /\ mainPc = "done" => items[i].dequeues = 1 /\ items[i].processed = 1
  /\ \A k1, k2 \in 1..Len(queue) : queue[k1] = queue[k2] => k1 = k2
  /\ \A w1, w2 \in Lanes :
       (lanes[w1].pkg # 0 /\ lanes[w1].pkg = lanes[w2].pkg) => w1 = w2

\* the run has ended on a file of more items than lanes
C1_Witness ==
  /\ mainPc = "done"
  /\ Len(packages) > CONCURRENCY
  /\ \A i \in 1..Len(items) : items[i].processed = 1

\* ---- RetryingFetcher

Transient(resp) == Has(resp, "status") /\ (resp.status = 429 \/ resp.status >= 500)

Success(resp) == Has(resp, "status") /\ resp.status = 200 /\ resp.json

\* the responses so far are k transient failures followed by a success
FailsThenSucceeds(rs, k) ==
  /\ Len(rs) = k + 1
  /\ \A i \in 1..k : Transient(rs[i])
  /\ Success(rs[k + 1])

\* C5: a query that gets k <= 4 transient failures and then a 200 returns the
\* vulnerabilities of that response after exactly k + 1 requests and k sleeps, the
\* i-th sleep lasting 1000 * 2^(i-1) ms (1 s, 2 s, 4 s, 8 s).
C5_RetryThenSuccess ==
  \A k \in 0..4 :
    (lanes[1].pc = "got" /\ FailsThenSucceeds(history.responses, k)) =>
      /\ lanes[1].outcome = "ok"
      /\ lanes[1].vulns = OrEmpty(history.responses[k + 1].data, "vulns")
      /\ history.requests = k + 1
      /\ history.sleeps = SubSeq(<<1000, 2000, 4000, 8000>>, 1, k)

\* four transient failures, then a 200 whose vulnerabilities are returned
C5_Witness ==
  /\ lanes[1].pc = "got"
  /\ FailsThenSucceeds(history.responses, 4)
  /\ history.responses[1].status = 500
  /\ lanes[1].vulns = <<W1, W2>>
  /\ history.requests = 5
  /\ history.sleeps = <<1000, 2000, 4000, 8000>>

\* C6 as stated: at most 5 requests are sent for one query.
C6_AtMostFiveAttempts == history.requests <= 5

\* C6 amended: at most RETRY_LIMIT + 1 = 6 requests are sent for one query (the
\* first and at most 5 retries after sleeps of 1, 2, 4, 8 and 16 s), and a
\* transient failure of the sixth request ends the query without a sleep.
C6_AtMostSixAttempts ==
  /\ history.requests <= RETRY_LIMIT + 1
  /\ Len(history.sleeps) <= RETRY_LIMIT
  /\ Len(history.responses) > RETRY_LIMIT =>
       /\ lanes[1].pc \notin {"fetch", "sleep"}
       /\ history.requests = RETRY_LIMIT + 1
       /\ history.sleeps = <<1000, 2000, 4000, 8000, 16000>>

\* the sixth request has failed too and the query has ended with no result
C6_Witness ==
  /\ history.requests = 6
  /\ Len(history.responses) = 6
  /\ \A i \in 1..6 : Transient(history.responses[i])
  /\ lanes[1].pc = "got"
  /\ lanes[1].outcome = "failed"
  /\ lanes[1].vulns = <<>>

\* neither retryable nor a success: a network error, a status outside 2xx other
\* than 429 and below 500, or a 2xx body that is no JSON
Permanent(resp) == ~Transient(resp) /\ ~Success(resp)

\* C19: only a response with status 429 or >= 500 is followed by a sleep and a
\* further request (up to RETRY_LIMIT times); a permanent failure ends the query at
\* once with an empty result: no sleep and no request follow it, and a query whose
\* first response is a permanent failure has made one request and no sleep.
C19_FailureClassification ==
  LET rs == history.responses
      n == Len(rs)
  IN  /\ \A k \in 1..(n - 1) : Transient(rs[k])
      /\ Len(history.sleeps) = Cardinality({k \in 1..n : Transient(rs[k]) /\ k <= RETRY_LIMIT})
      /\ history.requests <= Len(history.sleeps) + 1
      /\ (n >= 1 /\ Permanent(rs[n])) =>
           /\ history.requests = n
           /\ Len(history.sleeps) = n - 1
           /\ lanes[1].pc \in {"got", "done"}
           /\ lanes[1].pc = "got" => lanes[1].outcome = "failed" /\ lanes[1].vulns = <<>>
           /\ allVulns = <<>>
      /\ (n >= 1 /\ Permanent(rs[1])) =>
           /\ n = 1
           /\ history.requests = 1
           /\ history.sleeps = <<>>

\* the first response was a 200 whose body is no JSON: the query has ended with no
\* result after one request and no sleep
C19_Witness ==
  /\ history.responses = <<[status |-> 200, json |-> FALSE]>>
  /\ history.requests = 1
  /\ history.sleeps = <<>>
  /\ lanes[1].pc = "got"
  /\ lanes[1].outcome = "failed"
  /\ lanes[1].vulns = <<>>

\* ---- remote failures

OthersAsBefore(w) == \A u \in Lanes \ {w} : lanes'[u] = lanes[u]

\* osvRequest gives up on the query of lane w: the result is empty and nothing
\* but the lane changes
FailureDecided(w) ==
  (lanes[w].pc = "fetch" /\ lanes'[w].outcome = "failed") =>
    /\ lanes'[w].pc = "got"
    /\ lanes'[w].vulns = <<>>
    /\ OthersAsBefore(w)
    /\ UNCHANGED <<mainPc, queue, allVulns, perPackageCounts, items, outFile>>

\* the worker of lane w resumes after a failed query: nothing is recorded, and it
\* takes the head of the queue, or returns when the queue is empty
FailureSkipped(w) ==
  (lanes[w].pc = "got" /\ lanes[w].outcome = "failed" /\ lanes'[w] # lanes[w]) =>
    /\ UNCHANGED <<mainPc, allVulns, perPackageCounts, outFile>>
    /\ OthersAsBefore(w)
    /\ items'[lanes[w].pkg].processed = 1
    /\ IF queue = <<>>
       THEN lanes'[w].pc = "done" /\ queue' = queue
       ELSE /\ lanes'[w].pc = "fetch"
            /\ lanes'[w].pkg = Head(queue)
            /\ lanes'[w].attempt = 1
            /\ queue' = Tail(queue)

\* C7: a query that fails for good yields an empty result for its item only: the
\* lane goes on to the next item, the other lanes and the recorded results are
\* untouched, the run is never aborted or stuck (while main awaits the workers
\* some lane has a response, a timer or a continuation pending, or main can
\* write), and it ends by writing every recorded result once every item has been
\* processed.
C7_FailureContained ==
  /\ [][\A w \in Lanes : FailureDecided(w) /\ FailureSkipped(w)]_vars
  /\ [][mainPc = "await" => mainPc' \in {"await", "done"}]_vars
  /\ [](mainPc = "await" =>
          \/ \E w \in Lanes : lanes[w].pc \in {"fetch", "sleep", "got"}
          \/ ENABLED MainWrite)
  /\ [](mainPc = "done" =>
          /\ outFile = <<MapValues(allVulns)>>
          /\ \A i \in 1..Len(items) : items[i].processed = 1)

\* a query has failed for good while an item waits in the queue and the other lane
\* is in the middle of its own retries
C7_Witness ==
  \E w \in Lanes :
    /\ lanes[w].pc = "got"
    /\ lanes[w].outcome = "failed"
    /\ queue # <<>>
    /\ \E u \in Lanes \ {w} : lanes[u].pc = "sleep"

\* ---- ResultAggregator

NoRepeats(xs) == \A i, j \in 1..Len(xs) : xs[i] = xs[j] => i = j

\* C8: no record lists a component twice in affectedComponents or a version twice
\* in fixedVersions, and the map holds at most one record per identifier (the
\* record stored under a key carries that identifier).
C8_SetSemantics ==
  /\ \A i, j \in 1..Len(allVulns) : allVulns[i].key = allVulns[j].key => i = j
  /\ \A i \in 1..Len(allVulns) :
       /\ allVulns[i].value.id = allVulns[i].key
       /\ NoRepeats(allVulns[i].value.affectedComponents)
       /\ NoRepeats(allVulns[i].value.fixedVersions)

\* the only work item is A and its response held V1 twice (two remediated
\* vulnerabilities counted): A is listed once
C8_Witness ==
  /\ packages = <<[component |-> "A", forkPoint |-> s150]>>
  /\ MapHas(perPackageCounts, "A") /\ MapGet(perPackageCounts, "A") = 2
  /\ MapHas(allVulns, "V1")
  /\ MapGet(allVulns, "V1").affectedComponents = <<"A">>
  /\ MapGet(allVulns, "V1").fixedVersions = <<s200, s210>>

SetOf(xs) == {xs[i] : i \in 1..Len(xs)}

IsPrefix(xs, ys) == Len(xs) <= Len(ys) /\ SubSeq(ys, 1, Len(xs)) = xs

\* the vulnerabilities with identifier id that lane w is about to record
RECURSIVE WithId(_, _)
WithId(vs, id) ==
  IF vs = <<>> THEN <<>>
  ELSE (IF Head(vs).id = id THEN <<Head(vs)>> ELSE <<>>) \o WithId(Tail(vs), id)

Recording(w) == lanes[w].pc = "got" /\ lanes'[w] # lanes[w]

MergedBy(w, old, new) ==
  LET component == packages[lanes[w].pkg].component
      hits == WithId(relevant(lanes[w].vulns, packages[lanes[w].pkg].forkPoint), old.id)
  IN  IF hits = <<>> THEN new = old
      ELSE /\ IsPrefix(old.fixedVersions, new.fixedVersions)
           /\ SetOf(new.fixedVersions) =
                SetOf(old.fixedVersions)
                  \cup UNION {SetOf(extractFixes(hits[j])) : j \in 1..Len(hits)}
           /\ new.affectedComponents =
                IF Includes(old.affectedComponents, component)
                THEN old.affectedComponents
                ELSE Append(old.affectedComponents, component)

\* C9: a step never removes a record; recording an identifier that has a record
\* leaves its id, summary, details, severity, affected and references as first
\* inserted, makes fixedVersions the union of the old list and the new fixes and
\* appends the new component after the existing ones.
C9_MergeOnly ==
  [][\A i \in 1..Len(allVulns) :
       /\ Len(allVulns') >= Len(allVulns)
       /\ allVulns'[i].key = allVulns[i].key
       /\ LET old == allVulns[i].value
              new == allVulns'[i].value
          IN  /\ new.id = old.id
              /\ new.summary = old.summary
              /\ new.details = old.details
              /\ new.severity = old.severity
              /\ new.affected = old.affected
              /\ new.references = old.references
              /\ \A w \in Lanes : Recording(w) => MergedBy(w, old, new)
              /\ (\A w \in Lanes : ~Recording(w)) => new = old]_vars

\* V1 recorded for A with fixes {2.0.0} (payload W1), then for B with {2.1.0} (W2)
C9_Witness ==
  /\ packages = <<[component |-> "A", forkPoint |-> s150], [component |-> "B", forkPoint |-> s200]>>
  /\ perPackageCounts = <<[key |-> "A", value |-> 1], [key |-> "B", value |-> 1]>>
  /\ MapHas(allVulns, "V1")
  /\ MapGet(allVulns, "V1").summary = "s1"
  /\ MapGet(allVulns, "V1").details = "d1"
  /\ MapGet(allVulns, "V1").references = <<"u1">>
  /\ MapGet(allVulns, "V1").fixedVersions = <<s200, s210>>
  /\ MapGet(allVulns, "V1").affectedComponents = <<"A", "B">>

\* ---- malformed records

\* C12: a record that lacks an expected field is skipped alone: the stage does not
\* stop on it, and its output holds every component of the well-formed records of
\* all pages.
C12_MalformedSkippedAlone ==
  /\ catPc # "failed"
  /\ catPc = "done" =>
       /\ outFile1 # <<>>
       /\ \A i \in 1..Len(observed) :
            \E j \in 1..Len(outFile1[1]) : outFile1[1][j].component = observed[i].component

\* ---- startup

\* C13: when componentsWithForkPoints.json cannot be read or parsed the process
\* exits with status 1 and stays there: no work item was dequeued, no lane was
\* started (so no query was sent), nothing was recorded and no result file was
\* written, and no step follows the exit.
C13_FatalStartup ==
  /\ [](mainPc = "exit1" =>
          /\ packages = <<>> /\ queue = <<>> /\ items = <<>>
          /\ \A w \in Lanes : lanes[w] = NewLane
          /\ allVulns = <<>> /\ perPackageCounts = <<>>
          /\ outFile = <<>>)
  /\ [][mainPc # "exit1" /\ (mainPc' = "exit1" => mainPc = "start")]_vars

\* the read failed and the process has exited
C13_Witness == mainPc = "exit1" /\ outFile = <<>>

\* ---- paging

\* the total the scan works with: the totalPages of page 1, 1 when absent or 0
TotalOf(first) ==
  IF first.reported = <<>> \/ first.reported[1] = 0 THEN 1 ELSE first.reported[1]

\* page 1 came back with a body that processResults accepted
FirstPageRead == fetched # <<>> /\ ~(Len(fetched) = 1 /\ catPc = "failed")

\* C14: the pages fetched are 1, 2, 3, ... in this order, each once and one at a
\* time; totalPages is read from page 1 (1 when absent or 0) and never changes
\* afterwards, whatever later pages report; no page beyond totalPages is fetched;
\* a sleep of 2000 ms precedes every fetch but the first; the scan returns exactly
\* when page totalPages has been fetched.
C14_PagingProtocol ==
  /\ [](\A i \in 1..Len(fetched) : fetched[i].page = i)
  /\ [](FirstPageRead =>
          /\ totalPages = TotalOf(fetched[1])
          /\ Len(fetched) <= totalPages)
  /\ [](sleeps1 = [i \in 1..(IF catPc = "fetch" THEN page - 1
                             ELSE IF fetched = <<>> THEN 0 ELSE Len(fetched) - 1)
                      |-> 2000])
  /\ [](catPc \in {"return", "done"} => Len(fetched) = totalPages)
  /\ [](catPc = "sleep" => Len(fetched) < totalPages)
  /\ [][fetched # <<>> => totalPages' = totalPages]_vars
  /\ [][Len(fetched') <= Len(fetched) + 1]_vars

\* every page of the catalog was fetched with a sleep before each but the first,
\* although the last page reported a total smaller than page 1 did
C14_Witness ==
  /\ catPc = "done"
  /\ Len(fetched) = MaxPages
  /\ fetched[1].reported = <<MaxPages>>
  /\ fetched[Len(fetched)].reported = <<1>>
  /\ sleeps1 = [i \in 1..(MaxPages - 1) |-> 2000]

\* ---- the answers of a run against its output

\* the query of work item i ended with a 2xx response whose body was parsed
Succeeded(i) ==
  /\ history.answers[i] # <<>>
  /\ Has(history.answers[i][1], "status")
  /\ history.answers[i][1].status = 200
  /\ history.answers[i][1].json

\* the vulnerabilities that answer held
Returned(i) ==
  IF Succeeded(i) /\ Has(history.answers[i][1].data, "vulns")
  THEN SetOf(history.answers[i][1].data.vulns)
  ELSE {}

\* those of them that affect the fork point of the item
Matched(i) == {v \in Returned(i) : isVulnerableAtOrBelow(v, packages[i].forkPoint)}

\* C15: at most one lane updates the result map in a step, and when the run ends,
\* for two work items of different components whose answers both held a matching
\* vulnerability of the same identifier, the one record of that identifier lists
\* both components and every fixed version of both payloads.
C15_NoLostUpdate ==
  /\ [][Cardinality({w \in Lanes : Recording(w)}) <= 1]_vars
  /\ [](mainPc = "done" =>
          \A i, j \in 1..Len(packages) :
            \A v \in Matched(i), u \in Matched(j) :
              (packages[i].component # packages[j].component /\ v.id = u.id) =>
                /\ MapHas(allVulns, v.id)
                /\ Cardinality({k \in 1..Len(allVulns) : allVulns[k].key = v.id}) = 1
                /\ LET r == MapGet(allVulns, v.id)
                   IN  /\ {packages[i].component, packages[j].component}
                            \subseteq SetOf(r.affectedComponents)
                       /\ SetOf(extractFixes(v)) \cup SetOf(extractFixes(u))
                            \subseteq SetOf(r.fixedVersions)
                       /\ \E k \in 1..Len(outFile[1]) : outFile[1][k] = r)

\* A and B were queried by the two lanes; B's answer (V1, fixed 2.1.0) was recorded
\* first and A's (V1, fixed 2.0.0) was merged into it
C15_Witness ==
  /\ mainPc = "done"
  /\ packages = <<[component |-> "A", forkPoint |-> s150], [component |-> "B", forkPoint |-> s200]>>
  /\ Matched(1) = {W1}
  /\ Matched(2) = {W2}
  /\ MapGet(allVulns, "V1").affectedComponents = <<"B", "A">>
  /\ MapGet(allVulns, "V1").fixedVersions = <<s210, s200>>

\* ---- completion

\* C16: with every request answered the run ends (the file written, or the exit
\* of a failed start); the file is written only when the queue is empty and every
\* lane has returned, so nothing is being fetched, retried or merged then or
\* afterwards.
C16_PoolCompletion ==
  /\ <>(mainPc \in {"done", "exit1"})
  /\ [](outFile # <<>> => mainPc = "done")
  /\ [](mainPc = "done" => queue = <<>> /\ \A w \in Lanes : lanes[w].pc = "done")
  /\ [][outFile' # outFile => queue = <<>> /\ \A w \in Lanes : lanes[w].pc = "done"]_vars
  /\ [][mainPc # "done"]_vars

\* a file of MaxAudited work items has been worked off, one of them after retries
\* that failed for good, and the output is written
C16_Witness ==
  /\ mainPc = "done"
  /\ outFile # <<>>
  /\ Len(packages) = MaxAudited
  /\ \A i \in 1..Len(items) : items[i].processed = 1
  /\ \E i \in 1..Len(packages) :
       Has(history.answers[i][1], "status") /\ history.answers[i][1].status = 500

\* the identifiers and the components a run can meet
Identifiers == {v.id : v \in OsvVulns}

Components == {p.component : p \in PackageChoices}

\* component c has a work item whose answer held a matching vulnerability id
Affects(id, c) ==
  \E i \in 1..Len(packages) :
    packages[i].component = c /\ \E v \in Matched(i) : v.id = id

\* C17: when the run ends, the record of identifier id lists component c exactly
\* when the query of a work item of c succeeded and its answer held a vulnerability
\* id that affects the fork point of c; an identifier that affects no component
\* has no record; the file holds exactly these records.
C17_OutputSoundComplete ==
  mainPc = "done" =>
    /\ \A id \in Identifiers :
         /\ MapHas(allVulns, id) <=> \E c \in Components : Affects(id, c)
         /\ \A c \in Components :
              (MapHas(allVulns, id) /\ Includes(MapGet(allVulns, id).affectedComponents, c))
                <=> Affects(id, c)
    /\ MapKeys(allVulns) \subseteq Identifiers
    /\ \A k \in 1..Len(allVulns) :
         SetOf(allVulns[k].value.affectedComponents) \subseteq Components
    /\ outFile = <<MapValues(allVulns)>>

\* A's answer held V2 and V1, of which only V1 affects 1.5.0; B's answer held V2,
\* which affects 2.0.0: V2 lists B alone and V1 lists A
C17_Witness ==
  /\ mainPc = "done"
  /\ packages = <<[component |-> "A", forkPoint |-> s150], [component |-> "B", forkPoint |-> s200]>>
  /\ Returned(1) = {W3, W1}
  /\ Matched(1) = {W1}
  /\ Matched(2) = {W3}
  /\ MapGet(allVulns, "V1").affectedComponents = <<"A">>
  /\ MapGet(allVulns, "V2").affectedComponents = <<"B">>

\* ---- the summary

\* the matched vulnerabilities of item i that have at least one fixed version
Remediated(i) == {v \in Matched(i) : extractFixes(v) # <<>>}

\* C18: when the run ends, the summary has an entry for the component of every
\* work item whose query succeeded, also when its answer held no vulnerability,
\* and the entry of a component listed once is the number of its matched
\* vulnerabilities that have a fixed version.
C18_SummaryCoverage ==
  mainPc = "done" =>
    \A i \in 1..Len(packages) :
      Succeeded(i) =>
        /\ MapHas(perPackageCounts, packages[i].component)
        /\ (\A j \in 1..Len(packages) : packages[j].component = packages[i].component => j = i)
             => MapGet(perPackageCounts, packages[i].component) = Cardinality(Remediated(i))

\* what the code keeps of C18: an entry for every work item whose answer held at
\* least one vulnerability, matched or not
C18_EntryWhenVulnsReturned ==
  mainPc = "done" =>
    \A i \in 1..Len(packages) :
      /\ Returned(i) # {} =>
           /\ MapHas(perPackageCounts, packages[i].component)
           /\ (\A j \in 1..Len(packages) : packages[j].component = packages[i].component => j = i)
                => MapGet(perPackageCounts, packages[i].component) = Cardinality(Remediated(i))
      /\ (\A j \in 1..Len(packages) :
            packages[j].component = packages[i].component => Returned(j) = {})
           => ~MapHas(perPackageCounts, packages[i].component)

\* ---- ranges without bounds

\* the ranges of all affected entries of v
RangesOf(v) ==
  UNION {SetOf(OrEmpty(v.affected[i], "ranges")) : i \in 1..Len(OrEmpty(v, "affected"))}

\* no event of r names a bound; an empty or absent events list is the plain case
BoundFree(r) ==
  \A i \in 1..Len(OrEmpty(r, "events")) :
    ~Has(r.events[i], "introduced") /\ ~Has(r.events[i], "fixed")

====
